---- MODULE Spec2Model ----
(***************************************************************************)
(* State-machine model of the listener process (src/binance_listener.cpp): *)
(* the significance filter in on_binance_message, ThreadSafeQueue, the two *)
(* WebSocketClient instances (binance_client, receiver_client), the drain  *)
(* loop of downstream_thread, signalHandler and main; and of the hub       *)
(* process (src/data_receiver_server.cpp): its two routes, the topic, the  *)
(* listen sockets, signalHandler and main.                                 *)
(*                                                                         *)
(* Prices are fixed-point numbers in tenths (10.3 is 103); the double      *)
(* arithmetic of the source is modelled exactly on such values only as far *)
(* as decimal arithmetic agrees with it.                                   *)
(*                                                                         *)
(* Specifications:                                                         *)
(*   Spec       the whole process, no fairness                             *)
(*   FairSpec   the whole process, weak fairness of each of its threads    *)
(*   RunSpec    the two run() loops alone, weak fairness of their threads  *)
(*   StopSpec   the run() loops with stop() called from another thread     *)
(*   QueueSpec  ThreadSafeQueue with two producers and the consumer loop   *)
(*   ForwardSpec  producers, the drain loop and the forwarding client,     *)
(*              weak fairness of the drain thread and of sender_thread     *)
(*   HubSpec    the hub process, weak fairness of its event loop's exit    *)
(***************************************************************************)
EXTENDS Integers, Sequences, FiniteSets, TLC

\* ------------------------------------------------------------------ bounds
\* Trade observations that reach the filter, per run of the model.
MaxObs == 3
\* Connection failures (connect or read) the remote endpoints produce, per client.
MaxFail == 1

\* --------------------------------------------------------------- constants
\* const double MINIMUM_TICK_SIZE = 0.2, in tenths.
MINIMUM_TICK_SIZE == 2
\* std::atomic<double> g_last_sent_trade_price(0.0): the initial value.
INITIAL_LAST_PRICE == 0

\* const int PUBLIC_PORT = 8081 and INTERNAL_LISTENER_PORT = 8082.
PUBLIC_PORT == 8081
INTERNAL_LISTENER_PORT == 8082

\* /public connections the hub accepts in all, messages published in all, and
\* /internal connections open at a time.
MaxSubs == 3
MaxPublish == 2
MaxIngress == 2

Clients == {"binance", "receiver"}

\* Price texts the upstream feed sends in field "p": "0", "10", "10.1",
\* "10.3", and two texts that are no numbers, "x" and "10x".
PriceTexts ==
    { <<"0">>, <<"1", "0">>, <<"1", "0", ".", "1">>, <<"1", "0", ".", "3">>,
      <<"x">>, <<"1", "0", "x">> }

EventTypes == {"trade", "aggTrade"}

\* Upstream frames: wf is whether the text is a JSON document, hasE and hasP
\* whether it carries the fields "e" and "p", e and p their values.
Frame(wf, hasE, e, hasP, p) ==
    [wf |-> wf, hasE |-> hasE, e |-> e, hasP |-> hasP, p |-> p]

\* Trades with every price text, a trade without price, another event type
\* with and without price, a document without event type, and a frame that
\* is no JSON document.
Frames ==
    { Frame(TRUE, TRUE, "trade", TRUE, p) : p \in PriceTexts }
    \cup { Frame(TRUE, TRUE, e, FALSE, << >>) : e \in EventTypes }
    \cup { Frame(TRUE, TRUE, "aggTrade", TRUE, <<"1", "0", ".", "3">>),
           Frame(TRUE, FALSE, "", TRUE, <<"1", "0", ".", "3">>),
           Frame(FALSE, FALSE, "", FALSE, << >>) }

VARIABLES
    g_running,        \* std::atomic<bool> g_running
    g_last,           \* std::atomic<double> g_last_sent_trade_price, in tenths
    m_queue,          \* ThreadSafeQueue::m_queue: sequence of [id, payload]
    m_mutex,          \* ThreadSafeQueue::m_mutex: "free" or the holder
    rpc,              \* per client: position of the thread running run(); stop()
    m_open,           \* per client: m_ws.is_open()
    dpc,              \* position of downstream_thread's drain loop
    msg_to_send,      \* downstream_thread's msg_to_send (an item, or NoMsg)
    mpc,              \* position of main
    failures,         \* ghost, per client: failures the endpoint has produced
    delays,           \* ghost, per client: reconnect sleeps run() has completed
    lastErr,          \* ghost, per client: kind of the last failure
    obs,              \* ghost: the last trade observation (its number, its
                      \* price, the filter state before it, whether it was
                      \* emitted)
    pushed,           \* ghost: items in the order their push took effect
    popped,           \* ghost: items returned by successful pop calls, in order
    popClosed,        \* ghost: pop has returned false
    closedAt,         \* ghost: Len(pushed) when the flag was cleared, -1 before
    wire,             \* ghost: items written to the forwarding connection
    dropped,          \* ghost: ids of items send() was given while not open
    extStop,          \* ghost, per client: stop() was called from outside run()'s thread
    \* ---- the hub process, src/data_receiver_server.cpp
    public_listen_socket,    \* the pointer of line 18 is not null
    internal_listen_socket,  \* the pointer of line 19 is not null
    client_id_counter,       \* int client_id_counter of line 45
    ws_public,        \* clientIds of the open /public connections
    topic_trades,     \* clientIds subscribed to BROADCAST_TOPIC
    ws_internal,      \* number of open /internal connections
    hpc,              \* the hub's main: "run" inside .run(), "returned" after it
    received,         \* per clientId: the messages sent to that connection
    published         \* ghost: per publish, its payload and the /public
                      \* connections open when it was made

vars == << g_running, g_last, m_queue, m_mutex, rpc, m_open, dpc, msg_to_send,
           mpc, failures, delays, lastErr, obs, pushed, popped, popClosed,
           closedAt, wire, dropped, extStop,
           public_listen_socket, internal_listen_socket, client_id_counter,
           ws_public, topic_trades, ws_internal, hpc, received, published >>

hubVars == << public_listen_socket, internal_listen_socket, client_id_counter,
              ws_public, topic_trades, ws_internal, hpc, received, published >>

NoMsg == [id |-> 0, payload |-> << >>]
NoObs == [n |-> 0, price |-> 0, before |-> 0, emitted |-> FALSE]

\* ------------------------------------------------------- std::stod (line 167)
DigitChars == <<"0", "1", "2", "3", "4", "5", "6", "7", "8", "9">>

IsDigit(ch) == \E i \in 1..10 : DigitChars[i] = ch

DigitVal(ch) == (CHOOSE i \in 1..10 : DigitChars[i] = ch) - 1

\* Length of the run of digits of t that starts at position i.
RECURSIVE DigitRun(_, _)
DigitRun(t, i) ==
    IF i <= Len(t) /\ IsDigit(t[i]) THEN 1 + DigitRun(t, i + 1) ELSE 0

\* Value of the n digits of t that start at position i.
RECURSIVE DigitsValue(_, _, _)
DigitsValue(t, i, n) ==
    IF n = 0 THEN 0
    ELSE DigitsValue(t, i, n - 1) * 10 + DigitVal(t[i + n - 1])

\* std::stod on the text t: the longest prefix [sign] digits [. digits] is
\* converted (value in tenths, one fractional digit kept); ok is FALSE when
\* no conversion can be made (std::invalid_argument is thrown).
stod(t) ==
    LET s      == IF Len(t) >= 1 /\ t[1] \in {"-", "+"} THEN 1 ELSE 0
        neg    == s = 1 /\ t[1] = "-"
        ni     == DigitRun(t, s + 1)
        hasDot == s + ni + 1 <= Len(t) /\ t[s + ni + 1] = "."
        nf     == IF hasDot THEN DigitRun(t, s + ni + 2) ELSE 0
        ip     == DigitsValue(t, s + 1, ni)
        fp     == IF nf >= 1 THEN DigitVal(t[s + ni + 2]) ELSE 0
        mag    == ip * 10 + fp
    IN  [ok |-> ni + nf >= 1, val |-> IF neg THEN 0 - mag ELSE mag]

\* ------------------------------------------- significance filter (161..189)
Abs(x) == IF x < 0 THEN 0 - x ELSE x

\* if (last_price == 0.0): the cold-start test.
IsColdStart_NoSentinel(last_price) == FALSE
IsColdStart(last_price) == last_price = 0

\* if (std::abs(price_difference) >= MINIMUM_TICK_SIZE)
IsSignificant(price_difference) == Abs(price_difference) >= MINIMUM_TICK_SIZE

\* "{\"type\":\"S\",\"p\":" + std::string(price_sv) + "}"
Payload(price_sv) == <<"{\"type\":\"S\",\"p\":">> \o price_sv \o <<"}">>

\* Whether the callback reaches the filter with msg: the document parses,
\* doc["e"] exists and equals "trade", doc["p"] exists and std::stod converts
\* it. Every other frame ends the callback (by the if, or in the catch).
ReachesFilter(msg) ==
    /\ msg.wf
    /\ msg.hasE /\ msg.e = "trade"
    /\ msg.hasP
    /\ stod(msg.p).ok

\* ------------------------------------------------ ThreadSafeQueue (40..62)
\* m_queue.push(std::move(value))
QueuePush_Front(q, value) == <<value>> \o q
QueuePush(q, value) == Append(q, value)

\* m_queue.front()
QueueFront_Back(q) == q[Len(q)]
QueueFront(q) == Head(q)

\* m_queue.pop()
QueuePop(q) == Tail(q)

\* The wait predicate: !m_queue.empty() || !g_running
PopPredicate_FlagOnly(q, running) == ~running
PopPredicate(q, running) == q # << >> \/ ~running

\* if (!g_running) return false;
PopReturnsFalse(running) == ~running

\* --------------------------------------------- WebSocketClient (65..140)
\* while (g_running), the outer loop of run()
RunLoopCond(running) == running

\* if (!g_running) break;
BreakAfterTry_Always(running) == TRUE
BreakAfterTry(running) == ~running

\* sleep_for(RECONNECT_INTERVAL_MS): one reconnect delay per pass
DelaysAfterSleep_Twice(d) == d + 2
DelaysAfterSleep(d) == d + 1

\* if (m_ws.is_open()) in send()
SendWrites_Always(is_open) == TRUE
SendWrites(is_open) == is_open

\* --------------------------------------------------------------- initial state
\* Globals as initialised at lines 36..37, an empty queue (line 153), both
\* clients constructed and not connected, every thread at its first statement.
Init ==
    /\ g_running = TRUE
    /\ g_last = INITIAL_LAST_PRICE
    /\ m_queue = << >>
    /\ m_mutex = "free"
    /\ rpc = [c \in Clients |-> "loop"]
    /\ m_open = [c \in Clients |-> FALSE]
    /\ dpc = "pop"
    /\ msg_to_send = NoMsg
    /\ mpc = "join_upstream"
    /\ failures = [c \in Clients |-> 0]
    /\ delays = [c \in Clients |-> 0]
    /\ lastErr = [c \in Clients |-> "none"]
    /\ obs = NoObs
    /\ pushed = << >>
    /\ popped = << >>
    /\ popClosed = FALSE
    /\ closedAt = -1
    /\ wire = << >>
    /\ dropped = {}
    /\ extStop = [c \in Clients |-> FALSE]
    \* the hub: both listen callbacks (lines 99..110) got a socket, no
    \* connection yet, main inside .run()
    /\ public_listen_socket = TRUE
    /\ internal_listen_socket = TRUE
    /\ client_id_counter = 0
    /\ ws_public = {}
    /\ topic_trades = {}
    /\ ws_internal = 0
    /\ hpc = "run"
    /\ received = [id \in 0..(MaxSubs - 1) |-> << >>]
    /\ published = << >>

ghostClient == << failures, delays, lastErr, extStop >>
ghostQueue == << pushed, popped, popClosed, closedAt, wire, dropped >>
filterVars == << g_last, obs >>
queueVars == << m_queue, m_mutex >>
drainVars == << dpc, msg_to_send >>

\* ------------------------------------------------------------- signalHandler
\* g_running = false; nothing else (no notify, no close of a socket).
Signal ==
    /\ g_running
    /\ g_running' = FALSE
    /\ closedAt' = Len(pushed)
    /\ UNCHANGED << g_last, m_queue, m_mutex, rpc, m_open, dpc, msg_to_send,
                    mpc, failures, delays, lastErr, obs, pushed, popped,
                    popClosed, wire, dropped, extStop >>
    /\ UNCHANGED hubVars

\* ------------------------------------------------------ ThreadSafeQueue::push
\* lock_guard; m_queue.push; m_cond.notify_one: one critical section. A
\* consumer waiting on m_cond is made runnable (it re-enters the predicate
\* loop of wait, which takes the mutex again).
push(value) ==
    /\ m_mutex = "free"
    /\ m_queue' = QueuePush(m_queue, value)
    /\ pushed' = Append(pushed, value)
    /\ dpc' = IF dpc = "pop_wait" THEN "pop" ELSE dpc
    /\ UNCHANGED m_mutex

\* ------------------------------------------------------- on_binance_message
\* m_ws.read returns the frame msg to binance_client's read loop, which calls
\* the callback synchronously (line 88) and goes back to the loop condition.
OnBinanceMessage(msg) ==
    /\ rpc["binance"] = "read"
    /\ rpc' = [rpc EXCEPT !["binance"] = "inner"]
    /\ IF ~ReachesFilter(msg)
       THEN UNCHANGED << g_last, obs, m_queue, m_mutex, pushed, dpc >>
       ELSE LET current_trade_price == stod(msg.p).val
                last_price == g_last
                o == [n |-> obs.n + 1, price |-> current_trade_price,
                      before |-> last_price, emitted |-> FALSE]
            IN  /\ obs.n < MaxObs
                /\ IF IsColdStart(last_price)
                   THEN /\ g_last' = current_trade_price
                        /\ obs' = o
                        /\ UNCHANGED << m_queue, m_mutex, pushed, dpc >>
                   ELSE IF IsSignificant(current_trade_price - last_price)
                   THEN /\ push([id |-> Len(pushed) + 1, payload |-> Payload(msg.p)])
                        /\ g_last' = current_trade_price
                        /\ obs' = [o EXCEPT !.emitted = TRUE]
                   ELSE /\ obs' = o
                        /\ UNCHANGED << g_last, m_queue, m_mutex, pushed, dpc >>
    /\ UNCHANGED << g_running, m_open, msg_to_send, mpc, failures, delays,
                    lastErr, popped, popClosed, closedAt, wire, dropped, extStop >>
    /\ UNCHANGED hubVars

\* The receiver's frames go to the empty lambda of line 201.
OnReceiverMessage ==
    /\ rpc["receiver"] = "read"
    /\ rpc' = [rpc EXCEPT !["receiver"] = "inner"]
    /\ UNCHANGED << g_running, filterVars, queueVars, m_open, drainVars, mpc,
                    ghostClient, ghostQueue >>
    /\ UNCHANGED hubVars

\* ------------------------------------------------------ WebSocketClient::run
\* The client is Connected: the handshake of line 80 succeeded, the stream is
\* open and run() is in its read loop (lines 85..89).
Connected(c) == rpc[c] \in {"inner", "read"} /\ m_open[c]

\* Where control goes once the try block is left, by an exception or by the
\* end of the read loop: if (!g_running) break; at line 100.
AfterTry(running) == IF BreakAfterTry(running) THEN "ret" ELSE "cleanup"

\* while (g_running) at line 75 is false: run() returns.
RunLoopExit(c) ==
    /\ rpc[c] = "loop"
    /\ ~RunLoopCond(g_running)
    /\ rpc' = [rpc EXCEPT ![c] = "ret"]
    /\ UNCHANGED << g_running, filterVars, queueVars, m_open, drainVars, mpc,
                    ghostClient, ghostQueue >>
    /\ UNCHANGED hubVars

\* while (g_running) at line 75 is true and resolve, connect and handshake
\* (lines 77..82) succeed.
ConnectOk(c) ==
    /\ rpc[c] = "loop"
    /\ RunLoopCond(g_running)
    /\ rpc' = [rpc EXCEPT ![c] = "inner"]
    /\ m_open' = [m_open EXCEPT ![c] = TRUE]
    /\ UNCHANGED << g_running, filterVars, queueVars, drainVars, mpc,
                    ghostClient, ghostQueue >>
    /\ UNCHANGED hubVars

\* while (g_running) at line 75 is true and resolve, connect or handshake
\* throws; a catch (90..98) logs and control reaches line 100.
ConnectFail(c) ==
    /\ rpc[c] = "loop"
    /\ RunLoopCond(g_running)
    /\ failures[c] < MaxFail
    /\ failures' = [failures EXCEPT ![c] = @ + 1]
    /\ lastErr' = [lastErr EXCEPT ![c] = "error"]
    /\ rpc' = [rpc EXCEPT ![c] = AfterTry(g_running)]
    /\ UNCHANGED << g_running, filterVars, queueVars, m_open, drainVars, mpc,
                    delays, extStop, ghostQueue >>
    /\ UNCHANGED hubVars

\* while (g_running) at line 85: enter the blocking read, or leave the loop
\* and the try block and reach line 100.
ReadLoop(c) ==
    /\ rpc[c] = "inner"
    /\ rpc' = [rpc EXCEPT ![c] = IF g_running THEN "read" ELSE AfterTry(g_running)]
    /\ UNCHANGED << g_running, filterVars, queueVars, m_open, drainVars, mpc,
                    ghostClient, ghostQueue >>
    /\ UNCHANGED hubVars

\* m_ws.read throws: the remote closed gracefully (websocket::error::closed)
\* or the connection broke. Both land in a catch and then reach line 100;
\* only the log differs.
ReadFail(c, kind) ==
    /\ rpc[c] = "read"
    /\ m_open[c]
    /\ failures[c] < MaxFail
    /\ failures' = [failures EXCEPT ![c] = @ + 1]
    /\ lastErr' = [lastErr EXCEPT ![c] = kind]
    /\ rpc' = [rpc EXCEPT ![c] = AfterTry(g_running)]
    /\ m_open' = [m_open EXCEPT ![c] = FALSE]
    /\ UNCHANGED << g_running, filterVars, queueVars, drainVars, mpc,
                    delays, extStop, ghostQueue >>
    /\ UNCHANGED hubVars

\* Lines 103..110: close the stream if open, restart the io_context, replace
\* the stream by a fresh one, sleep_for(RECONNECT_INTERVAL_MS), and back to
\* line 75. The exception caught above is gone by now.
CleanupAndSleep(c) ==
    /\ rpc[c] = "cleanup"
    /\ m_open' = [m_open EXCEPT ![c] = FALSE]
    /\ delays' = [delays EXCEPT ![c] = DelaysAfterSleep(@)]
    /\ lastErr' = [lastErr EXCEPT ![c] = "none"]
    /\ rpc' = [rpc EXCEPT ![c] = "loop"]
    /\ UNCHANGED << g_running, filterVars, queueVars, drainVars, mpc,
                    failures, extStop, ghostQueue >>
    /\ UNCHANGED hubVars

\* WebSocketClient::stop, called by the thread that ran run() once run() has
\* returned (lines 193 and 205): close the stream if it is open.
Stop(c) ==
    /\ rpc[c] = "ret"
    /\ m_open' = [m_open EXCEPT ![c] = FALSE]
    /\ rpc' = [rpc EXCEPT ![c] = "done"]
    /\ UNCHANGED << g_running, filterVars, queueVars, drainVars, mpc,
                    ghostClient, ghostQueue >>
    /\ UNCHANGED hubVars

\* ------------------------------------------------------- ThreadSafeQueue::pop
\* unique_lock, then the predicate of m_cond.wait (lines 50..51): if it holds
\* the consumer goes on with the mutex held, else it releases the mutex and
\* blocks on the condition variable.
PopEnter ==
    /\ dpc = "pop"
    /\ m_mutex = "free"
    /\ IF PopPredicate(m_queue, g_running)
       THEN /\ m_mutex' = "drain"
            /\ dpc' = "pop_flag"
       ELSE /\ dpc' = "pop_wait"
            /\ UNCHANGED m_mutex
    /\ UNCHANGED << g_running, filterVars, m_queue, rpc, m_open, msg_to_send,
                    mpc, ghostClient, ghostQueue >>
    /\ UNCHANGED hubVars

\* std::condition_variable::wait may return without a notification.
SpuriousWakeup ==
    /\ dpc = "pop_wait"
    /\ dpc' = "pop"
    /\ UNCHANGED << g_running, filterVars, queueVars, rpc, m_open, msg_to_send,
                    mpc, ghostClient, ghostQueue >>
    /\ UNCHANGED hubVars

\* Lines 52..55 with the mutex held: return false if the flag is cleared,
\* else move the front item out and return true. The flag is read again
\* here, after the predicate.
PopReturn ==
    /\ dpc = "pop_flag"
    /\ m_mutex' = "free"
    /\ IF PopReturnsFalse(g_running)
       THEN /\ popClosed' = TRUE
            /\ dpc' = "join"
            /\ UNCHANGED << m_queue, msg_to_send, popped >>
       ELSE /\ msg_to_send' = QueueFront(m_queue)
            /\ m_queue' = QueuePop(m_queue)
            /\ popped' = Append(popped, QueueFront(m_queue))
            /\ dpc' = "send_check"
            /\ UNCHANGED popClosed
    /\ UNCHANGED << g_running, filterVars, rpc, m_open, mpc, ghostClient,
                    pushed, closedAt, wire, dropped >>
    /\ UNCHANGED hubVars

\* ----------------------------------------------------- WebSocketClient::send
\* receiver_client.send(msg_to_send), line 116: the is_open test. A message
\* given to send() while the stream is not open is not kept anywhere.
SendCheck ==
    /\ dpc = "send_check"
    /\ IF SendWrites(m_open["receiver"])
       THEN /\ dpc' = "send_write"
            /\ UNCHANGED dropped
       ELSE /\ dpc' = "pop"
            /\ dropped' = dropped \cup {msg_to_send.id}
    /\ UNCHANGED << g_running, filterVars, queueVars, rpc, m_open, msg_to_send,
                    mpc, ghostClient, pushed, popped, popClosed, closedAt, wire >>
    /\ UNCHANGED hubVars

\* m_ws.write at line 117 completes: the frame is on the forwarding connection.
SendWriteOk ==
    /\ dpc = "send_write"
    /\ m_open["receiver"]
    /\ wire' = Append(wire, msg_to_send)
    /\ dpc' = "pop"
    /\ UNCHANGED << g_running, filterVars, queueVars, rpc, m_open, msg_to_send,
                    mpc, ghostClient, pushed, popped, popClosed, closedAt, dropped >>
    /\ UNCHANGED hubVars

\* m_ws.write is called on a stream that run() has closed or replaced since
\* the test of line 116: it throws, the catch at line 119 logs and send()
\* returns.
SendWriteClosed ==
    /\ dpc = "send_write"
    /\ ~m_open["receiver"]
    /\ dpc' = "pop"
    /\ UNCHANGED << g_running, filterVars, queueVars, rpc, m_open, msg_to_send,
                    mpc, ghostClient, ghostQueue >>
    /\ UNCHANGED hubVars

\* m_ws.write throws on an open stream (the write fails); same catch.
SendWriteError ==
    /\ dpc = "send_write"
    /\ m_open["receiver"]
    /\ dpc' = "pop"
    /\ UNCHANGED << g_running, filterVars, queueVars, rpc, m_open, msg_to_send,
                    mpc, ghostClient, ghostQueue >>
    /\ UNCHANGED hubVars

\* sender_thread.join() at line 213; downstream_thread then finishes.
DrainJoin ==
    /\ dpc = "join"
    /\ rpc["receiver"] = "done"
    /\ dpc' = "done"
    /\ UNCHANGED << g_running, filterVars, queueVars, rpc, m_open, msg_to_send,
                    mpc, ghostClient, ghostQueue >>
    /\ UNCHANGED hubVars

\* ------------------------------------------------------------------- main
\* upstream_thread.join() at line 218.
MainJoinUpstream ==
    /\ mpc = "join_upstream"
    /\ rpc["binance"] = "done"
    /\ mpc' = "join_downstream"
    /\ UNCHANGED << g_running, filterVars, queueVars, rpc, m_open, drainVars,
                    ghostClient, ghostQueue >>
    /\ UNCHANGED hubVars

\* downstream_thread.join() at line 219, then return 0.
MainJoinDownstream ==
    /\ mpc = "join_downstream"
    /\ dpc = "done"
    /\ mpc' = "returned"
    /\ UNCHANGED << g_running, filterVars, queueVars, rpc, m_open, drainVars,
                    ghostClient, ghostQueue >>
    /\ UNCHANGED hubVars

\* ------------------------------------------------------------ specifications
ClientStep(c) ==
    \/ RunLoopExit(c)
    \/ ConnectOk(c)
    \/ ReadLoop(c)
    \/ CleanupAndSleep(c)
    \/ Stop(c)

DrainStep ==
    \/ PopEnter
    \/ PopReturn
    \/ SendCheck
    \/ SendWriteOk
    \/ SendWriteClosed
    \/ DrainJoin

MainStep ==
    \/ MainJoinUpstream
    \/ MainJoinDownstream

\* What the process does not control: the signal, the remote endpoints, the
\* frames they send, a failing write and a spurious wakeup.
Environment ==
    \/ Signal
    \/ \E msg \in Frames : OnBinanceMessage(msg)
    \/ OnReceiverMessage
    \/ \E c \in Clients : ConnectFail(c)
    \/ \E c \in Clients, kind \in {"closed", "error"} : ReadFail(c, kind)
    \/ SendWriteError
    \/ SpuriousWakeup

Next ==
    \/ \E c \in Clients : ClientStep(c)
    \/ DrainStep
    \/ MainStep
    \/ Environment

Spec == Init /\ [][Next]_vars

\* Every thread of the process that can take a step eventually takes one. No
\* fairness is stated for the environment: a frame, a failure, a signal or a
\* spurious wakeup may never come.
Fairness ==
    /\ \A c \in Clients : WF_vars(ClientStep(c))
    /\ WF_vars(DrainStep)
    /\ WF_vars(MainStep)

FairSpec == Init /\ [][Next]_vars /\ Fairness

\* The two run() loops with their remote endpoints and the signal, without
\* the drain loop and main (which run() does not read).
RunNext ==
    \/ \E c \in Clients : ClientStep(c)
    \/ Signal
    \/ \E msg \in Frames : OnBinanceMessage(msg)
    \/ OnReceiverMessage
    \/ \E c \in Clients : ConnectFail(c)
    \/ \E c \in Clients, kind \in {"closed", "error"} : ReadFail(c, kind)

RunSpec == Init /\ [][RunNext]_vars /\ \A c \in Clients : WF_vars(ClientStep(c))

\* --------------------------------------------- stop() during run() (124..130)
\* WebSocketClient::stop called by another thread while run() is executing
\* and has an active connection: close the stream. Nothing else is written.
ExternalStop(c) ==
    /\ Connected(c)
    /\ ~extStop[c]
    /\ extStop' = [extStop EXCEPT ![c] = TRUE]
    /\ m_open' = [m_open EXCEPT ![c] = FALSE]
    /\ UNCHANGED << g_running, filterVars, queueVars, rpc, drainVars, mpc,
                    failures, delays, lastErr, ghostQueue >>
    /\ UNCHANGED hubVars

\* m_ws.read on a stream that stop() has closed throws; same catch as ReadFail.
ReadOnClosed(c) ==
    /\ rpc[c] = "read"
    /\ ~m_open[c]
    /\ lastErr' = [lastErr EXCEPT ![c] = "closed"]
    /\ rpc' = [rpc EXCEPT ![c] = AfterTry(g_running)]
    /\ UNCHANGED << g_running, filterVars, queueVars, m_open, drainVars, mpc,
                    failures, delays, extStop, ghostQueue >>
    /\ UNCHANGED hubVars

StopNext ==
    \/ RunNext
    \/ \E c \in Clients : ExternalStop(c)
    \/ \E c \in Clients : ReadOnClosed(c)

StopSpec == Init /\ [][StopNext]_vars

\* ------------------------------------ ThreadSafeQueue with several producers
\* Pushes the producers make, in all, in QueueSpec.
MaxQueuePush == 3

Producers == {"p1", "p2"}

\* A producer thread calls push (lines 43..47) with a payload of its own.
ProducerPush(p) ==
    /\ Len(pushed) < MaxQueuePush
    /\ push([id |-> Len(pushed) + 1, payload |-> <<p>>])
    /\ UNCHANGED << g_running, filterVars, rpc, m_open, msg_to_send, mpc,
                    ghostClient, popped, popClosed, closedAt, wire, dropped >>
    /\ UNCHANGED hubVars

\* The queue used by several producers and the one consumer loop of line 209
\* (whose send() finds the forwarding connection not open).
QueueNext ==
    \/ \E p \in Producers : ProducerPush(p)
    \/ PopEnter
    \/ PopReturn
    \/ SendCheck
    \/ SpuriousWakeup
    \/ Signal

QueueSpec == Init /\ [][QueueNext]_vars

\* ------------------------------ the drain loop and the forwarding connection
\* The queue filled by producers, the drain loop of lines 208..211 and the
\* forwarding client's run() with the hub as its remote endpoint. The drain
\* thread and sender_thread are scheduled; pushes, failures of the connection,
\* the signal and spurious wakeups may or may not happen.
ForwardNext ==
    \/ \E p \in Producers : ProducerPush(p)
    \/ DrainStep
    \/ ClientStep("receiver")
    \/ ConnectFail("receiver")
    \/ \E kind \in {"closed", "error"} : ReadFail("receiver", kind)
    \/ OnReceiverMessage
    \/ SendWriteError
    \/ SpuriousWakeup
    \/ Signal

ForwardSpec ==
    Init /\ [][ForwardNext]_vars
         /\ WF_vars(DrainStep) /\ WF_vars(ClientStep("receiver"))

\* ------------------------------------ the hub (src/data_receiver_server.cpp)
listenerVars ==
    << g_running, g_last, m_queue, m_mutex, rpc, m_open, dpc, msg_to_send,
       mpc, failures, delays, lastErr, obs, pushed, popped, popClosed,
       closedAt, wire, dropped, extStop >>

Ports == {PUBLIC_PORT, INTERNAL_LISTENER_PORT}

\* The values client_id_counter++ hands out.
ClientIds == 0..(MaxSubs - 1)

\* Texts an ingress connection sends: an event of the listener and some
\* other text (the hub does not look into the message).
HubPayloads == { Payload(<<"1", "0", ".", "3">>), <<"ping">> }

\* The listen socket of the port is open. Both .listen calls are made on the
\* one App, so each port serves both routes.
Listening(port) ==
    IF port = PUBLIC_PORT THEN public_listen_socket ELSE internal_listen_socket

\* ws->subscribe(BROADCAST_TOPIC) in .open (line 69)
Subscribe_Nothing(topic, id) == topic
Subscribe(topic, id) == topic \cup {id}

\* The library takes a closing connection out of every topic before .close
\* (lines 74..77) runs.
Unsubscribe_Keep(topic, id) == topic
Unsubscribe(topic, id) == topic \ {id}

\* ws->publish(BROADCAST_TOPIC, message, opCode, false) (line 92): message is
\* sent to every subscriber of the topic; the publishing connection is not
\* subscribed.
Publish(recv, topic, msg) ==
    [id \in DOMAIN recv |-> IF id \in topic THEN Append(recv[id], msg) ELSE recv[id]]

\* A client connects to /public on a listening port: .upgrade (lines 56..65)
\* gives it clientId = client_id_counter++, and .open (lines 66..70), which
\* the library calls from within upgrade, subscribes it.
PublicConnect(port) ==
    /\ hpc = "run"
    /\ Listening(port)
    /\ client_id_counter < MaxSubs
    /\ client_id_counter' = client_id_counter + 1
    /\ ws_public' = ws_public \cup {client_id_counter}
    /\ topic_trades' = Subscribe(topic_trades, client_id_counter)
    /\ UNCHANGED << public_listen_socket, internal_listen_socket, ws_internal,
                    hpc, received, published >>
    /\ UNCHANGED listenerVars

\* .message of /public (lines 71..73): ignored.
PublicMessage(id) ==
    /\ hpc = "run"
    /\ id \in ws_public
    /\ UNCHANGED hubVars
    /\ UNCHANGED listenerVars

\* A /public connection ends (the client leaves, or the idle timeout of line
\* 53 fires): .close (lines 74..77) logs.
PublicClose(id) ==
    /\ hpc = "run"
    /\ id \in ws_public
    /\ ws_public' = ws_public \ {id}
    /\ topic_trades' = Unsubscribe(topic_trades, id)
    /\ UNCHANGED << public_listen_socket, internal_listen_socket,
                    client_id_counter, ws_internal, hpc, received, published >>
    /\ UNCHANGED listenerVars

\* A client connects to /internal on a listening port: the default upgrade,
\* then .open (lines 87..89), which logs. Nothing counts or limits these
\* connections.
IngressConnect(port) ==
    /\ hpc = "run"
    /\ Listening(port)
    /\ ws_internal < MaxIngress
    /\ ws_internal' = ws_internal + 1
    /\ UNCHANGED << public_listen_socket, internal_listen_socket,
                    client_id_counter, ws_public, topic_trades, hpc, received,
                    published >>
    /\ UNCHANGED listenerVars

\* .message of /internal (lines 90..93): publish the message as received.
IngressMessage(message) ==
    /\ hpc = "run"
    /\ ws_internal >= 1
    /\ Len(published) < MaxPublish
    /\ received' = Publish(received, topic_trades,
                           [n |-> Len(published) + 1, payload |-> message])
    /\ published' = Append(published, [payload |-> message, subs |-> ws_public])
    /\ UNCHANGED << public_listen_socket, internal_listen_socket,
                    client_id_counter, ws_public, topic_trades, ws_internal, hpc >>
    /\ UNCHANGED listenerVars

\* An /internal connection ends (it has no idle timeout, line 84): .close
\* (lines 94..96) logs.
IngressClose ==
    /\ hpc = "run"
    /\ ws_internal >= 1
    /\ ws_internal' = ws_internal - 1
    /\ UNCHANGED << public_listen_socket, internal_listen_socket,
                    client_id_counter, ws_public, topic_trades, hpc, received,
                    published >>
    /\ UNCHANGED listenerVars

\* signalHandler (lines 27..38): close the listen sockets that are set and
\* null the pointers. It touches nothing else.
HubSignal ==
    /\ hpc = "run"
    /\ public_listen_socket' = FALSE
    /\ internal_listen_socket' = FALSE
    /\ UNCHANGED << client_id_counter, ws_public, topic_trades, ws_internal,
                    hpc, received, published >>
    /\ UNCHANGED listenerVars

\* .run() (line 111) returns once the event loop has no socket left, neither
\* a listen socket nor a connection; main then returns 0 (line 114).
HubLoopExit ==
    /\ hpc = "run"
    /\ ~public_listen_socket /\ ~internal_listen_socket
    /\ ws_public = {}
    /\ ws_internal = 0
    /\ hpc' = "returned"
    /\ UNCHANGED << public_listen_socket, internal_listen_socket,
                    client_id_counter, ws_public, topic_trades, ws_internal,
                    received, published >>
    /\ UNCHANGED listenerVars

HubNext ==
    \/ \E port \in Ports : PublicConnect(port)
    \/ \E id \in ClientIds : PublicMessage(id)
    \/ \E id \in ClientIds : PublicClose(id)
    \/ \E port \in Ports : IngressConnect(port)
    \/ \E message \in HubPayloads : IngressMessage(message)
    \/ IngressClose
    \/ HubSignal
    \/ HubLoopExit

\* The hub's event loop runs; clients, their messages and the signal are the
\* environment.
HubSpec == Init /\ [][HubNext]_vars /\ WF_vars(HubLoopExit)

\* ------------------------------------------------------------------ claims
IsPrefix(a, b) ==
    /\ Len(a) <= Len(b)
    /\ \A i \in 1..Len(a) : a[i] = b[i]

\* C1: for every observation after the first, the filter emits exactly when
\* abs(price - lastEmittedPrice) >= MinimumTickSize on the state before the
\* observation, whatever the baseline, a first observed price of 0 included.
C1_EmitsIffSignificant ==
    obs.n > 1 => (obs.emitted <=> Abs(obs.price - obs.before) >= MINIMUM_TICK_SIZE)

\* C2: the first trade observation pushes nothing, whatever its price, and
\* records that price as the baseline.
C2_FirstObservationSilent ==
    obs.n = 1 => (~obs.emitted /\ pushed = << >> /\ g_last = obs.price)

C2_Witness == obs.n = 1 /\ obs.price = 103 /\ g_last = 103

\* C3: the items returned by successful pops are a prefix of the items in the
\* order their pushes took effect, for several producers and one consumer.
C3_PopsArePrefixOfPushes == IsPrefix(popped, pushed)

C3_Witness ==
    /\ Len(popped) >= 3
    /\ popped[1].payload # popped[2].payload
    /\ popped[2].payload = popped[3].payload

\* C4: a consumer blocked in pop on an empty queue when the running flag is
\* cleared is woken and its pop returns Closed, with no further push.
C4_CloseWakesConsumer ==
    (~g_running /\ dpc = "pop_wait" /\ m_queue = << >>) ~> popClosed

\* C5: pop returns Closed only after every item pushed before the close has
\* been returned by pop.
C5_ClosedOnlyOnceDrained == popClosed => Len(popped) >= closedAt

C8_SendWhileDisconnectedDrops ==
    /\ [](\A i \in 1..Len(wire) : wire[i].id \notin dropped)
    /\ [][(dpc = "send_check" /\ ~m_open["receiver"] /\ dpc' # dpc)
            => /\ dpc' = "pop"
               /\ msg_to_send.id \in dropped'
               /\ wire' = wire
               /\ m_queue' = m_queue
               /\ m_open' = m_open
               /\ rpc' = rpc]_vars

C8_Witness ==
    /\ dropped # {}
    /\ m_open["receiver"]
    /\ wire # << >>
    /\ \A i \in 1..Len(wire) : \E d \in dropped : d < wire[i].id

\* C9: after stop() is called on a client whose run() is executing, run()
\* makes no further connection attempt: its loop condition is false.
C9_StopEndsRun ==
    [][\A c \in Clients :
         (extStop[c] /\ rpc[c] = "loop") => rpc'[c] \in {"loop", "ret"}]_vars

\* C10: once the running flag is cleared, every blocked call returns and
\* main returns.
C10_ShutdownTerminates == (~g_running) ~> (mpc = "returned")

\* The text of {"type":"S","p":"s"} for the price text s, in the chunks of Payload.
QuotedPayload(s) == <<"{\"type\":\"S\",\"p\":", "\"">> \o s \o <<"\"", "}">>

\* C13: the payload pushed for a significant trade is {"type":"S","p":"s"},
\* s being a price text of the feed whose value is the observed price: the
\* price quoted, its characters unchanged.
C13_PayloadIsQuotedPriceText ==
    (obs.emitted /\ pushed # << >>)
        => \E s \in PriceTexts :
             /\ stod(s).ok /\ stod(s).val = obs.price
             /\ pushed[Len(pushed)].payload = QuotedPayload(s)

\* C14: the items written to the forwarding connection are a subsequence of
\* the items pushed by the filter, in push order: every written item is one
\* pushed item with its payload unchanged, none is written twice, and none is
\* written before an item pushed earlier than it.
C14_WireIsSubsequenceOfPushed ==
    /\ \A i \in 1..Len(wire) :
         /\ wire[i].id \in 1..Len(pushed)
         /\ wire[i] = pushed[wire[i].id]
    /\ \A i, j \in 1..Len(wire) : i < j => wire[i].id < wire[j].id

C14_Witness ==
    /\ Len(wire) >= 2
    /\ wire[1].payload # wire[2].payload

\* A frame the callback must ignore: no JSON document, no field "e", an event
\* type other than "trade", no field "p", or a price text that is no number.
Ignorable(msg) ==
    \/ ~msg.wf
    \/ ~msg.hasE
    \/ msg.e # "trade"
    \/ ~msg.hasP
    \/ \E i \in 1..Len(msg.p) : ~IsDigit(msg.p[i]) /\ msg.p[i] # "."

\* C16: delivering a frame that is malformed, is no trade event, lacks a
\* required field or carries an unparsable price changes neither the last
\* emitted price nor the queue, pushes nothing, and the callback returns to
\* the read loop with the connection and the running flag as they were.
C16_IgnoredFramesChangeNothing ==
    [][\A msg \in Frames :
         (Ignorable(msg) /\ OnBinanceMessage(msg))
            => /\ g_last' = g_last
               /\ m_queue' = m_queue
               /\ pushed' = pushed
               /\ obs' = obs
               /\ m_open' = m_open
               /\ g_running' = g_running
               /\ rpc'["binance"] = "inner"]_vars

\* The price an emitted item carries: the characters between the prefix and
\* the closing brace of its payload, converted as the filter converts them.
EmittedPrice(item) == stod(SubSeq(item.payload, 2, Len(item.payload) - 1)).val

\* C18: once a trade has been observed, the last emitted price is the price
\* of the most recently emitted event, or the first observed price while
\* nothing has been emitted: it is set by the first observation and by each
\* emission, and no other step (an observation that is not significant, a
\* reconnect) changes it.
C18_LastPriceIsLastEmitted ==
    /\ [](pushed # << >> => g_last = EmittedPrice(pushed[Len(pushed)]))
    /\ [][g_last' = IF obs'.n # obs.n /\ (obs'.emitted \/ obs'.n = 1)
                    THEN obs'.price
                    ELSE g_last]_vars

\* C19: whenever send() has passed its is-open check and is about to write or
\* writing, the forwarding connection is Connected: run() is in its read loop
\* with the stream open, not closing, restarting or replacing the stream.
C19_SendWritesOnlyWhileConnected ==
    dpc = "send_write" => Connected("receiver")

C12_OnlySubscribersAtPublish ==
    \A id \in DOMAIN received : \A i \in 1..Len(received[id]) :
        /\ received[id][i].n \in 1..Len(published)
        /\ id \in published[received[id][i].n].subs
        /\ \A j \in 1..Len(received[id]) :
             received[id][j].n = received[id][i].n => j = i

C12_Witness ==
    \E k \in 1..Len(published) :
        /\ published[k].subs # {}
        /\ \E early \in ClientIds, late \in ws_public :
             /\ early \notin published[k].subs
             /\ \E id \in published[k].subs : early < id /\ id < late
             /\ late \notin published[k].subs
             /\ k = Len(published)

\* C15: once the signal has been handled, the hub accepts no new connection,
\* and it ends with every connection closed and .run() returned (exit 0),
\* also when connections were open at the signal.
C15_HubShutsDown ==
    /\ [][(~public_listen_socket /\ ~internal_listen_socket)
            => (ws_public' \subseteq ws_public /\ ws_internal' <= ws_internal)]_vars
    /\ (~public_listen_socket /\ ~internal_listen_socket)
          ~> (hpc = "returned" /\ ws_public = {} /\ ws_internal = 0)

\* C17: at most one ingress connection is open at any time.
C17_AtMostOneIngress == ws_internal <= 1

====
